---------------------------- MODULE Spec2Model ----------------------------
(***************************************************************************)
(* Model of the clixon SNMP frontend's scalar operation handler            *)
(* (apps/snmp/snmp_handler.c): the mode switch of snmp_scalar_handler, the *)
(* read path snmp_scalar_get, the write path snmp_scalar_set, and the      *)
(* datastore (running / candidate) the handler reaches through the         *)
(* clicon_rpc_* client calls.                                              *)
(***************************************************************************)
EXTENDS Integers, Sequences, FiniteSets, TLC

(***************************************************************************)
(* Bounds of the model.                                                    *)
(***************************************************************************)
\* Integers a varbind or an int32 leaf may carry: 0..MaxInt
MaxInt == 1

\* Objects set by one PDU: 1..MaxPdu
MaxPdu == 2

(***************************************************************************)
(* Protocol vocabulary used by the handler.                                *)
(***************************************************************************)
SNMP_ERR_NOERROR == 0
SNMP_ERR_GENERR == 5
SNMP_ERR_WRONGTYPE == 7
SNMP_NOSUCHINSTANCE == 129

MODE_GET == 160
MODE_GETNEXT == 161
MODE_SET_RESERVE1 == 0
MODE_SET_RESERVE2 == 1
MODE_SET_ACTION == 2
MODE_SET_COMMIT == 3
MODE_SET_FREE == 4
MODE_SET_UNDO == 5

\* The fixed vocabulary of status codes a handler may return to the runtime
StatusVocabulary ==
    {SNMP_ERR_NOERROR, SNMP_ERR_GENERR, SNMP_ERR_WRONGTYPE}

ASN_NULL == "ASN_NULL"
ASN_INTEGER == "ASN_INTEGER"
ASN_OCTET_STR == "ASN_OCTET_STR"

CV_INT32 == "CV_INT32"
CV_STRING == "CV_STRING"

\* A null pointer / absent string. Strings are sequences of characters.
NULL == <<>>

(***************************************************************************)
(* Values.  A schema value is a printable string (sequence of characters); *)
(* a protocol value is a varbind: an ASN.1 tag plus the member of the      *)
(* value union the tag selects.                                            *)
(***************************************************************************)
Digits == <<"0", "1", "2", "3", "4", "5", "6", "7", "8", "9">>

DigitVal(c) == (CHOOSE i \in 1..10 : Digits[i] = c) - 1

IsDigit(c) == \E i \in 1..10 : Digits[i] = c

RECURSIVE NatToStr(_)
NatToStr(n) ==
    IF n < 10 THEN <<Digits[n + 1]>>
    ELSE NatToStr(n \div 10) \o <<Digits[(n % 10) + 1]>>

\* Faulty variant of IntToStr: the sign is dropped
IntToStrUnsigned(n) == IF n < 0 THEN NatToStr(-n) ELSE NatToStr(n)

IntToStr(n) == IF n < 0 THEN <<"-">> \o NatToStr(-n) ELSE NatToStr(n)

RECURSIVE StrToNat(_)
StrToNat(s) ==
    IF Len(s) = 1 THEN DigitVal(s[1])
    ELSE 10 * StrToNat(SubSeq(s, 1, Len(s) - 1)) + DigitVal(s[Len(s)])

IsNatStr(s) == Len(s) > 0 /\ \A i \in 1..Len(s) : IsDigit(s[i])

IsIntStr(s) ==
    \/ IsNatStr(s)
    \/ Len(s) > 1 /\ s[1] = "-" /\ IsNatStr(Tail(s))

StrToInt(s) == IF s[1] = "-" THEN 0 - StrToNat(Tail(s)) ELSE StrToNat(s)

IntVals == 0..MaxInt
OctetVals == {<<"a">>}

\* A varbind (netsnmp_variable_list): type, val.integer, val.string
Varbind(t, i, s) == [type |-> t, integer |-> i, string |-> s]

NullVarbind == Varbind(ASN_NULL, 0, NULL)

\* Varbinds a management station may send in a set request
SetVarbinds ==
    {Varbind(ASN_INTEGER, i, NULL) : i \in IntVals}
        \cup {Varbind(ASN_OCTET_STR, 0, s) : s \in OctetVals}
        \cup {NullVarbind}

(***************************************************************************)
(* Managed-object bindings (clixon_snmp_handle), created at registration   *)
(* and immutable afterwards: sh_ys (the schema leaf, here its resolved     *)
(* type) and sh_default.  "A" is an int32 leaf with a declared default,    *)
(* "B" a string leaf without one.                                          *)
(***************************************************************************)
Objs == {"A", "B"}

sh_ys(o) == IF o = "A" THEN "int32" ELSE "string"

sh_default(o) == IF o = "A" THEN <<"7">> ELSE NULL

\* yang2snmp_types: the ASN.1 tag and the cv type of a schema leaf; ret < 0
\* when the call fails or the resolved type has no translation.
yang2snmp_types(ys, fail) ==
    CASE ~fail /\ ys = "int32" ->
            [ret |-> 0, asn1_type |-> ASN_INTEGER, cvtype |-> CV_INT32]
      [] ~fail /\ ys = "string" ->
            [ret |-> 0, asn1_type |-> ASN_OCTET_STR, cvtype |-> CV_STRING]
      [] OTHER ->
            [ret |-> -1, asn1_type |-> ASN_NULL, cvtype |-> CV_STRING]

(***************************************************************************)
(* Type translator.  ret = 1: translated; ret = 0: the value cannot be     *)
(* translated, which is a per-object protocol error (err), not a failure.  *)
(***************************************************************************)
\* schema string -> protocol value
type_yang2snmp(valstr, cvtype) ==
    CASE cvtype = CV_INT32 /\ IsIntStr(valstr) ->
            [ret |-> 1, err |-> 0,
             snmpval |-> Varbind(ASN_INTEGER, StrToInt(valstr), NULL)]
      [] cvtype = CV_STRING ->
            [ret |-> 1, err |-> 0,
             snmpval |-> Varbind(ASN_OCTET_STR, 0, valstr)]
      [] OTHER ->
            [ret |-> 0, err |-> SNMP_ERR_WRONGTYPE, snmpval |-> NullVarbind]

\* protocol value -> schema string, by the varbind's own tag
type_snmp2yang(requestvb) ==
    CASE requestvb.type = ASN_INTEGER ->
            [ret |-> 1, err |-> 0, valstr |-> IntToStr(requestvb.integer)]
      [] requestvb.type = ASN_OCTET_STR ->
            [ret |-> 1, err |-> 0, valstr |-> requestvb.string]
      [] OTHER ->
            [ret |-> 0, err |-> SNMP_ERR_WRONGTYPE, valstr |-> NULL]

(***************************************************************************)
(* Datastore client.  A datastore db is [running, candidate], each a       *)
(* configuration: a function from leaf paths to their string value (NULL:  *)
(* no instance).  `fail` is a transport / backend failure of the call.     *)
(***************************************************************************)
\* The backend validates a configuration against the schema types
ValidConfig(cfg) ==
    \A o \in Objs :
        cfg[o] # NULL /\ sh_ys(o) = "int32" => IsIntStr(cfg[o])

\* get: the running configuration under xpath; rpcerr: the reply holds an
\* embedded <rpc-error> instead
clicon_rpc_get(db, xpath, fail, rpcerr) ==
    IF fail THEN [ret |-> -1, xt |-> [rpc_error |-> FALSE, body |-> NULL]]
    ELSE IF rpcerr THEN [ret |-> 0, xt |-> [rpc_error |-> TRUE, body |-> NULL]]
    ELSE [ret |-> 0, xt |-> [rpc_error |-> FALSE, body |-> db.running[xpath]]]

\* edit-config.  Default operation merge: the addressed leaf takes the new
\* value and the rest of the target stays; replace: the target becomes the
\* payload.
clicon_rpc_edit_config(db, target, op, path, valstr, fail) ==
    IF fail \/ op \notin {"merge", "replace"} THEN [ret |-> -1, db |-> db]
    ELSE IF op = "merge"
    THEN [ret |-> 0, db |-> [db EXCEPT ![target][path] = valstr]]
    ELSE [ret |-> 0,
          db |-> [db EXCEPT ![target] =
                    [o \in DOMAIN db[target] |->
                        IF o = path THEN valstr ELSE NULL]]]

\* commit: candidate becomes running, if it validates
clicon_rpc_commit(db, fail) ==
    IF fail \/ ~ValidConfig(db.candidate) THEN [ret |-> -1, db |-> db]
    ELSE [ret |-> 0, db |-> [db EXCEPT !.running = db.candidate]]

\* discard-changes: candidate is reset to running
clicon_rpc_discard_changes(db, fail) ==
    IF fail THEN [ret |-> -1, db |-> db]
    ELSE [ret |-> 0, db |-> [db EXCEPT !.candidate = db.running]]

\* Records of the RPCs a handler invocation issues
RpcGet(xpath) == [op |-> "get", target |-> "running", path |-> xpath,
                  operation |-> "none", value |-> NULL]
RpcEdit(target, operation, path, valstr) ==
    [op |-> "edit-config", target |-> target, path |-> path,
     operation |-> operation, value |-> valstr]
RpcCommit == [op |-> "commit", target |-> "running", path |-> "",
              operation |-> "none", value |-> NULL]
RpcDiscard == [op |-> "discard-changes", target |-> "candidate", path |-> "",
               operation |-> "none", value |-> NULL]

(***************************************************************************)
(* Handler-local resources and failure points.  A handler function is a    *)
(* straight line of calls, each of which may fail; fp names the call that  *)
(* fails in an invocation ("none": no call fails).                         *)
(***************************************************************************)
Idx(steps, s) == CHOOSE i \in 1..Len(steps) : steps[i] = s

\* The call s was made and succeeded
Passed(steps, fp, s) == fp = "none" \/ Idx(steps, s) < Idx(steps, fp)

\* The result of one handler function
Out(ret, db, vb, err, rpcs, failed, acquired, released) ==
    [ret |-> ret, db |-> db, vb |-> vb, err |-> err, rpcs |-> rpcs,
     failed |-> failed, acquired |-> acquired, released |-> released]

(***************************************************************************)
(* snmp_scalar_get                                                         *)
(***************************************************************************)
\* The calls of snmp_scalar_get in order ("rpc_error": the check of the
\* reply for an embedded <rpc-error>)
GetSteps ==
    <<"xml_nsctx_yang", "yang2xpath", "clicon_rpc_get", "rpc_error",
      "type_yang2snmp", "snmp_set_var_value">>

GetFails == {GetSteps[i] : i \in 1..Len(GetSteps)} \cup {"none"}

\* What the cleanup at done: frees, when set
GetCleanup == {"snmpval", "xt", "xpath", "nsc"}

\* Faulty variant of GetValstr: the default takes precedence over the stored value
GetValstrDefaultFirst(x, defaultval) ==
    IF defaultval # NULL THEN defaultval ELSE x

\* The value string: from the reply, else the default
GetValstr(x, defaultval) == IF x # NULL THEN x ELSE defaultval

snmp_scalar_get(db, ys, requestvb, defaultval, cvtype, fp) ==
    LET g == clicon_rpc_get(db, ys, fp = "clicon_rpc_get", fp = "rpc_error")
        valstr == GetValstr(g.xt.body, defaultval)
        tr == type_yang2snmp(valstr, cvtype)
        \* the last call the flow reaches when nothing fails
        final == IF valstr = NULL THEN "rpc_error"
                ELSE IF tr.ret = 0 THEN "type_yang2snmp"
                ELSE "snmp_set_var_value"
        failed == IF fp # "none" /\ Idx(GetSteps, fp) <= Idx(GetSteps, final)
                  THEN fp ELSE "none"
        acquired ==
            {r \in {"nsc"} : Passed(GetSteps, failed, "xml_nsctx_yang")}
            \cup {r \in {"xpath"} : Passed(GetSteps, failed, "yang2xpath")}
            \cup {r \in {"xt"} : Passed(GetSteps, failed, "clicon_rpc_get")}
            \cup {r \in {"snmpval"} :
                    /\ Passed(GetSteps, failed, "type_yang2snmp")
                    /\ valstr # NULL /\ tr.ret = 1}
        rpcs == IF Passed(GetSteps, failed, "yang2xpath")
                THEN <<RpcGet(ys)>> ELSE <<>>
        released == acquired \cap GetCleanup
    IN  IF failed # "none"
        THEN Out(-1, db, requestvb, 0, rpcs, failed, acquired, released)
        ELSE IF valstr = NULL
        THEN Out(0, db, requestvb, SNMP_NOSUCHINSTANCE, rpcs, failed,
                 acquired, released)
        ELSE IF tr.ret = 0
        THEN Out(0, db, requestvb, tr.err, rpcs, failed, acquired, released)
        ELSE Out(0, db,
                 Varbind(requestvb.type, tr.snmpval.integer, tr.snmpval.string),
                 0, rpcs, failed, acquired, released)

(***************************************************************************)
(* snmp_scalar_set                                                         *)
(***************************************************************************)
\* The calls of snmp_scalar_set in order ("api_path2xml_invalid": the
\* ret == 0 outcome of api_path2xml)
SetSteps ==
    <<"clicon_dbspec_yang", "xml_new", "yang2api_path_fmt", "api_path2xml",
      "api_path2xml_invalid", "xml_new_body", "type_snmp2yang",
      "xml_value_set", "cbuf_new", "clicon_xml2cbuf",
      "clicon_rpc_edit_config">>

SetFails == {SetSteps[i] : i \in 1..Len(SetSteps)} \cup {"none"}

\* What the cleanup at done: frees, when set
SetCleanup == {"cb", "xtop", "valstr"}

\* Faulty variant of EditTarget: the edit is applied to running
EditTargetRunning == "running"

\* The datastore and the operation of the staged edit
EditTarget == "candidate"

\* Faulty variant of EditOperation: the payload replaces the target
EditOperationReplace == "replace"

EditOperation == "merge"

\* Faulty variant of SetSkipsEdit: the edit is made whatever the translator
\* returned
SetSkipsEditNever(ret) == FALSE

\* if (ret == 0) goto ok: the translator set a per-object error, no edit
SetSkipsEdit(ret) == ret = 0

snmp_scalar_set(db, ys, requestvb, fp) ==
    LET tr == type_snmp2yang(requestvb)
        skip == SetSkipsEdit(tr.ret)
        final == IF skip THEN "type_snmp2yang"
                ELSE "clicon_rpc_edit_config"
        failed == IF fp # "none" /\ Idx(SetSteps, fp) <= Idx(SetSteps, final)
                  THEN fp ELSE "none"
        e == clicon_rpc_edit_config(db, EditTarget, EditOperation, ys,
                                    tr.valstr, failed = "clicon_rpc_edit_config")
        acquired ==
            {r \in {"xtop"} : Passed(SetSteps, failed, "xml_new")}
            \cup {r \in {"api_path"} :
                    Passed(SetSteps, failed, "yang2api_path_fmt")}
            \cup {r \in {"valstr"} :
                    Passed(SetSteps, failed, "type_snmp2yang")
                    /\ tr.valstr # NULL}
            \cup {r \in {"cb"} :
                    Passed(SetSteps, failed, "cbuf_new") /\ ~skip}
        issued == Passed(SetSteps, failed, "clicon_xml2cbuf") /\ ~skip
        rpcs == IF issued
                THEN <<RpcEdit(EditTarget, EditOperation, ys, tr.valstr)>>
                ELSE <<>>
        released == acquired \cap SetCleanup
    IN  IF failed # "none"
        THEN Out(-1, db, requestvb, 0, rpcs, failed, acquired, released)
        ELSE IF skip
        THEN Out(0, db, requestvb, tr.err, rpcs, failed, acquired, released)
        ELSE IF e.ret < 0
        THEN Out(-1, db, requestvb, 0, rpcs, "clicon_rpc_edit_config",
                 acquired, released)
        ELSE Out(0, e.db, requestvb, 0, rpcs, failed, acquired, released)

(***************************************************************************)
(* snmp_scalar_handler                                                     *)
(***************************************************************************)
\* retval as initialised on entry, returned on every goto done
ScalarRetvalInit == -1

\* Faulty variant of Reserve1Error: the tag is not checked
Reserve1ErrorNever(vbtype, asn1_type) == 0

\* MODE_SET_RESERVE1: the request error to set, 0 for none
Reserve1Error(vbtype, asn1_type) ==
    IF vbtype # asn1_type THEN SNMP_ERR_WRONGTYPE ELSE 0

\* Faulty variant of UndoRpc: Undo succeeds without discarding
UndoRpcNone(db, fail) == [ret |-> 0, db |-> db]

\* MODE_SET_UNDO and MODE_SET_COMMIT: the RPC issued
UndoRpc(db, fail) == clicon_rpc_discard_changes(db, fail)

\* Faulty variant of CommitRpc: the commit request is a discard
CommitRpcDiscard(db, fail) == clicon_rpc_discard_changes(db, fail)

CommitRpc(db, fail) == clicon_rpc_commit(db, fail)

\* Faulty variant of HandlerRet: the status of the call is ignored
HandlerRetIgnore(r) == SNMP_ERR_NOERROR

\* The status of the handler after a call of status r: goto done, or on
HandlerRet(r) == IF r < 0 THEN ScalarRetvalInit ELSE SNMP_ERR_NOERROR

\* An invocation that touches nothing
Quiet(ret, db, vb, err, failed) ==
    Out(ret, db, vb, err, <<>>, failed, {}, {})

\* [out: the result, abort: the process aborted in an assertion].  ndebug:
\* the build compiles assertions out.
snmp_scalar_handler(db, sh, mode, requestvb, fp, ndebug) ==
    LET t == yang2snmp_types(sh_ys(sh), fp = "yang2snmp_types")
        ret(o) == [out |-> o, abort |-> FALSE]
    IN  IF t.ret < 0
        THEN ret(Quiet(ScalarRetvalInit, db, requestvb, 0, "yang2snmp_types"))
        ELSE CASE mode = MODE_GET ->
                LET vb == [requestvb EXCEPT !.type = t.asn1_type]
                    g == snmp_scalar_get(db, sh, vb, sh_default(sh),
                                         t.cvtype, fp)
                IN  ret([g EXCEPT !.ret = HandlerRet(g.ret)])
          [] mode = MODE_GETNEXT ->
                [out |-> Quiet(SNMP_ERR_NOERROR, db, requestvb, 0, "none"),
                 abort |-> ~ndebug]
          [] mode = MODE_SET_RESERVE1 ->
                ret(Quiet(SNMP_ERR_NOERROR, db, requestvb,
                          Reserve1Error(requestvb.type, t.asn1_type), "none"))
          [] mode = MODE_SET_ACTION ->
                LET a == snmp_scalar_set(db, sh, requestvb, fp)
                IN  ret([a EXCEPT !.ret = HandlerRet(a.ret)])
          [] mode = MODE_SET_UNDO ->
                LET u == UndoRpc(db, fp = "clicon_rpc_discard_changes")
                IN  ret(Out(HandlerRet(u.ret), u.db, requestvb, 0,
                            <<RpcDiscard>>,
                            IF u.ret < 0 THEN "clicon_rpc_discard_changes"
                            ELSE "none", {}, {}))
          [] mode = MODE_SET_COMMIT ->
                LET c == CommitRpc(db, fp = "clicon_rpc_commit")
                IN  ret(Out(HandlerRet(c.ret), c.db, requestvb, 0,
                            <<RpcCommit>>,
                            IF c.ret < 0 THEN "clicon_rpc_commit"
                            ELSE "none", {}, {}))
          [] OTHER ->
                \* MODE_SET_RESERVE2, MODE_SET_FREE
                ret(Quiet(SNMP_ERR_NOERROR, db, requestvb, 0, "none"))

\* The calls that may fail in an invocation of the given mode
ModeFails(mode) ==
    {"none", "yang2snmp_types"} \cup
        CASE mode = MODE_GET -> GetFails
          [] mode = MODE_SET_ACTION -> SetFails
          [] mode = MODE_SET_UNDO -> {"clicon_rpc_discard_changes"}
          [] mode = MODE_SET_COMMIT -> {"clicon_rpc_commit"}
          [] OTHER -> {}

(***************************************************************************)
(* Schema tree (yang_spec / yang_stmt).  A statement is                    *)
(* [keyword, argument, cv, kids]: ys_keyword, ys_argument, ys_cv and the   *)
(* child statements in stored order.  An argument is a tuple of text       *)
(* chunks; cv is "none" (ys_cv == NULL), "true" or "false".                *)
(***************************************************************************)
MaxMods == 2

Y_MODULE == "module"
Y_SUBMODULE == "submodule"
Y_REVISION == "revision"
Y_NAMESPACE == "namespace"
Y_FEATURE == "feature"
Y_LEAF == "leaf"

Stmt(keyword, argument, cv, kids) ==
    [keyword |-> keyword, argument |-> argument, cv |-> cv, kids |-> kids]

\* No statement: yang_find found nothing
NoStmt == Stmt("", <<>>, "none", <<>>)

\* yang_find: the first child of yn with the keyword and, when argument is
\* not NULL, with that argument
yang_find(yn, keyword, argument) ==
    LET hit(i) == /\ yn.kids[i].keyword = keyword
                  /\ (argument = NULL \/ yn.kids[i].argument = argument)
        hits == {i \in 1..Len(yn.kids) : hit(i)}
    IN  IF hits = {} THEN NoStmt
        ELSE yn.kids[CHOOSE i \in hits : \A j \in hits : i <= j]

\* cv_bool_get
cv_bool_get(cv) == cv = "true"

\* Options of the handle: a value is a tuple of text chunks, NULL when the
\* option is not set
clicon_option_exists(h, name) == h.options[name] # NULL

clicon_option_str(h, name) == h.options[name]

clicon_option_bool(h, name) == h.options[name] = <<"true">>

\* Faulty variant of module: another module is taken for the inventory module
moduleOther == <<"A">>

\* The fixed name of the inventory module
module == <<"ietf-yang-library">>

(***************************************************************************)
(* yang_modules_init                                                       *)
(***************************************************************************)
\* yang_spec_parse_module: loads the named module, as the file ymod holds
\* it, into yspec unless a module of that name is already there
yang_spec_parse_module(yspec, name, ymod, fail) ==
    IF fail THEN [ret |-> -1, yspec |-> yspec]
    ELSE IF yang_find(yspec, Y_MODULE, name) # NoStmt
    THEN [ret |-> 0, yspec |-> yspec]
    ELSE [ret |-> 0,
          yspec |-> [yspec EXCEPT !.kids = Append(@, ymod)]]

\* yang_modules_revision: the revision of the loaded inventory module, NULL
\* if it is not loaded or has none
yang_modules_revision(h) ==
    LET ymod == yang_find(h.yspec, Y_MODULE, <<"ietf-yang-library">>)
        yrev == yang_find(ymod, Y_REVISION, NULL)
    IN  IF ymod # NoStmt /\ yrev # NoStmt THEN yrev.argument ELSE NULL

\* Faulty variant of yang_modules_init: nothing is checked or loaded
yang_modules_init_unchecked(h, ylibfile, fail) == [ret |-> 0, h |-> h]

\* ylibfile: the inventory module as the data directory holds it; fail: the
\* file cannot be loaded
yang_modules_init(h, ylibfile, fail) ==
    IF ~clicon_option_bool(h, "CLICON_MODULE_LIBRARY_RFC7895")
    THEN [ret |-> 0, h |-> h]
    ELSE IF ~clicon_option_exists(h, "CLICON_MODULE_SET_ID")
    THEN [ret |-> -1, h |-> h]
    ELSE LET p == yang_spec_parse_module(h.yspec, <<"ietf-yang-library">>,
                                         ylibfile, fail)
             h2 == [h EXCEPT !.yspec = p.yspec]
         IN  IF p.ret < 0 THEN [ret |-> -1, h |-> h2]
             ELSE IF yang_modules_revision(h2) = NULL
             THEN [ret |-> -1, h |-> h2]
             ELSE [ret |-> 0, h |-> h2]

(***************************************************************************)
(* The buffer cb: what the cprintf calls append, as a sequence of tokens   *)
(* (start tag, end tag, text chunk).  "%s" copies an argument as it is.    *)
(***************************************************************************)
Open(tag) == [k |-> "open", tag |-> tag, xmlns |-> NULL]

OpenNs(tag, ns) == [k |-> "open", tag |-> tag, xmlns |-> ns]

Close(tag) == [k |-> "close", tag |-> tag, xmlns |-> NULL]

Text(arg) ==
    [i \in 1..Len(arg) |-> [k |-> "text", tag |-> arg[i], xmlns |-> NULL]]

\* cprintf(cb, "<tag>%s</tag>", arg)
Element(tag, arg) == <<Open(tag)>> \o Text(arg) \o <<Close(tag)>>

\* Faulty variant of RevisionTokens: no element when no revision is declared
RevisionTokensOmit(yn) ==
    IF yang_find(yn, Y_REVISION, NULL) # NoStmt
    THEN Element("revision", yang_find(yn, Y_REVISION, NULL).argument)
    ELSE <<>>

\* The revision element of a module or submodule
RevisionTokens(yn) ==
    IF yang_find(yn, Y_REVISION, NULL) # NoStmt
    THEN Element("revision", yang_find(yn, Y_REVISION, NULL).argument)
    ELSE Element("revision", <<>>)

\* The namespace element of a module
NamespaceTokens(yn) ==
    IF yang_find(yn, Y_NAMESPACE, NULL) # NoStmt
    THEN Element("namespace", yang_find(yn, Y_NAMESPACE, NULL).argument)
    ELSE Element("namespace", <<>>)

\* Faulty variant of FeatureEnabled: every feature is reported
FeatureEnabledAll(yc) == TRUE

\* yc->ys_cv && cv_bool_get(yc->ys_cv)
FeatureEnabled(yc) == yc.cv # "none" /\ cv_bool_get(yc.cv)

\* The inner loop: the children of a module in stored order
RECURSIVE ChildTokens(_)
ChildTokens(kids) ==
    IF kids = <<>> THEN <<>>
    ELSE LET yc == Head(kids)
         IN  (CASE yc.keyword = Y_FEATURE ->
                    IF FeatureEnabled(yc)
                    THEN Element("feature", yc.argument) ELSE <<>>
                [] yc.keyword = Y_SUBMODULE ->
                    <<Open("submodule")>> \o Element("name", yc.argument)
                        \o RevisionTokens(yc) \o <<Close("submodule")>>
                [] OTHER -> <<>>)
             \o ChildTokens(Tail(kids))

\* Faulty variant of SkipNode: every node of the schema tree is reported
SkipNodeNever(ymod) == FALSE

\* if (ymod->ys_keyword != Y_MODULE) continue
SkipNode(ymod) == ymod.keyword # Y_MODULE

ModuleTokens(ymod) ==
    <<Open("module")>> \o Element("name", ymod.argument)
        \o RevisionTokens(ymod) \o NamespaceTokens(ymod)
        \o ChildTokens(ymod.kids) \o <<Close("module")>>

\* The outer loop: the nodes of the schema tree in stored order
RECURSIVE SpecTokens(_)
SpecTokens(kids) ==
    IF kids = <<>> THEN <<>>
    ELSE (IF SkipNode(Head(kids)) THEN <<>> ELSE ModuleTokens(Head(kids)))
         \o SpecTokens(Tail(kids))

\* The whole buffer
StateTokens(yspec, yns, module_set_id) ==
    <<OpenNs("modules-state", yns.argument)>>
        \o Element("module-set-id", module_set_id)
        \o SpecTokens(yspec.kids)
        \o <<Close("modules-state")>>

(***************************************************************************)
(* XML trees (cxobj): [tag, xmlns, text, kids].                            *)
(***************************************************************************)
Xml(tag, xmlns, text, kids) ==
    [tag |-> tag, xmlns |-> xmlns, text |-> text, kids |-> kids]

\* Characters that cannot stand in character data or an attribute value
Markup == {"&", "<"}

\* The parser's stack machine over the tokens from position i; stack holds
\* the open elements, innermost last, under a holder for the top level
RECURSIVE ParseFrom(_, _, _)
ParseFrom(toks, i, stack) ==
    IF i > Len(toks)
    THEN IF Len(stack) = 1 THEN [ret |-> 0, x |-> stack[1].kids]
         ELSE [ret |-> -1, x |-> <<>>]
    ELSE LET t == toks[i]
             n == Len(stack)
         IN  CASE t.k = "open" ->
                    IF \E j \in 1..Len(t.xmlns) : t.xmlns[j] \in Markup
                    THEN [ret |-> -1, x |-> <<>>]
                    ELSE ParseFrom(toks, i + 1,
                            Append(stack, Xml(t.tag, t.xmlns, <<>>, <<>>)))
               [] t.k = "close" ->
                    IF n < 2 \/ stack[n].tag # t.tag
                    THEN [ret |-> -1, x |-> <<>>]
                    ELSE ParseFrom(toks, i + 1,
                            [SubSeq(stack, 1, n - 1) EXCEPT
                                ![n - 1].kids = Append(@, stack[n])])
               [] OTHER ->
                    IF n < 2 \/ t.tag \in Markup
                    THEN [ret |-> -1, x |-> <<>>]
                    ELSE ParseFrom(toks, i + 1,
                            [stack EXCEPT ![n].text = Append(@, t.tag)])

\* xml_parse_string: the tree of a serialized document; ret < 0 when the
\* text is not well-formed or does not bind to the schema (fail)
xml_parse_string(toks, fail) ==
    IF fail THEN [ret |-> -1, x |-> <<>>]
    ELSE ParseFrom(toks, 1, <<Xml("", NULL, <<>>, <<>>)>>)

\* netconf_operation_failed_xml: an rpc-error document with error-tag
\* operation-failed is put into the result tree
netconf_operation_failed_xml(xret, type, fail) ==
    IF fail THEN [ret |-> -1, xret |-> xret]
    ELSE [ret |-> 0,
          xret |-> Append(xret,
                    Xml("rpc-error", NULL, <<>>,
                        <<Xml("error-type", NULL, <<type>>, <<>>),
                          Xml("error-tag", NULL, <<"operation-failed">>,
                              <<>>)>>))]

\* netconf_trymerge: the document is merged into the result tree
netconf_trymerge(x, xret, fail) ==
    IF fail THEN [ret |-> -1, xret |-> xret]
    ELSE [ret |-> 0, xret |-> xret \o x]

(***************************************************************************)
(* yang_modules_state_get                                                  *)
(***************************************************************************)
StateGetFails ==
    {"none", "cbuf_new", "xml_parse_string", "netconf_operation_failed_xml",
     "netconf_trymerge"}

\* What "%s" makes of a NULL argument is undefined: the text "(null)" or a
\* crash
NullFormats == {"(null)", "crash"}

\* Faulty variant of ParseFailedRet: a parse failure is fatal
ParseFailedRetFatal(opret) == -1

\* The status after xml_parse_string failed, opret being the status of
\* netconf_operation_failed_xml
ParseFailedRet(opret) == IF opret < 0 THEN -1 ELSE 1

\* [ret, xret: the result tree afterwards, cb: the buffer (NULL: none),
\*  failed: the call that failed, crashed]
StateGetOut(ret, xret, cb, failed, crashed) ==
    [ret |-> ret, xret |-> xret, cb |-> cb, failed |-> failed,
     crashed |-> crashed]

yang_modules_state_get(h, yspec, xret, fp, nullfmt) ==
    LET module_set_id == clicon_option_str(h, "CLICON_MODULE_SET_ID")
        ylib == yang_find(yspec, Y_MODULE, module)
        yns == yang_find(ylib, Y_NAMESPACE, NULL)
        cb == StateTokens(yspec, yns,
                          IF module_set_id = NULL THEN <<nullfmt>>
                          ELSE module_set_id)
        p == xml_parse_string(cb, fp = "xml_parse_string")
        e == netconf_operation_failed_xml(xret, "protocol",
                fp = "netconf_operation_failed_xml")
        m == netconf_trymerge(p.x, xret, fp = "netconf_trymerge")
    IN  IF ylib = NoStmt
        THEN StateGetOut(-1, xret, NULL, "ylib", FALSE)
        ELSE IF yns = NoStmt
        THEN StateGetOut(-1, xret, NULL, "yns", FALSE)
        ELSE IF fp = "cbuf_new"
        THEN StateGetOut(-1, xret, NULL, "cbuf_new", FALSE)
        ELSE IF module_set_id = NULL /\ nullfmt = "crash"
        THEN StateGetOut(-1, xret, NULL, "cprintf", TRUE)
        ELSE IF p.ret < 0
        THEN StateGetOut(ParseFailedRet(e.ret), e.xret, cb,
                         IF e.ret < 0 THEN "netconf_operation_failed_xml"
                         ELSE "xml_parse_string", FALSE)
        ELSE StateGetOut(m.ret, m.xret, cb,
                         IF m.ret < 0 THEN "netconf_trymerge" ELSE "none",
                         FALSE)

(***************************************************************************)
(* snmp_table_handler.  A table binding holds the schema node sh_ys and    *)
(* the table runtime structure sh_table, whose contents are the rows       *)
(* materialized from the datastore: a sequence of row keys.                *)
(***************************************************************************)
MaxRows == 2

MaxWalk == 3

Y_LIST == "list"

\* The table bindings: "T", whose schema node has a list child, and "N",
\* whose schema node has none
Tables == {"T", "N"}

table_ys(t) ==
    IF t = "T"
    THEN Stmt("container", <<"T">>, "none",
              <<Stmt(Y_LEAF, <<"n">>, "none", <<>>),
                Stmt(Y_LIST, <<"row">>, "none", <<>>)>>)
    ELSE Stmt("container", <<"N">>, "none",
              <<Stmt(Y_LEAF, <<"n">>, "none", <<>>)>>)

\* clixon_table_create: the table contents are built from the list
\* instances the datastore holds under the node's path, one row per
\* instance; ret < 0 when the query fails
clixon_table_create(table, ys, rows, fail) ==
    IF fail THEN [ret |-> -1, table |-> table]
    ELSE [ret |-> 0, table |-> rows]

\* Faulty variant of TableNoList: the list child is not looked for
TableNoListNever(ylist) == FALSE

\* (ylist = yang_find(ys, Y_LIST, NULL)) == NULL
TableNoList(ylist) == ylist = NoStmt

\* retval as initialised on entry of the table handler
TableRetvalInit == SNMP_ERR_GENERR

\* [ret, table: the table contents afterwards, rpcs, err: the request error
\*  set, failed]
TableOut(ret, table, rpcs, err, failed) ==
    [ret |-> ret, table |-> table, rpcs |-> rpcs, err |-> err,
     failed |-> failed]

\* rows: the list instances the datastore holds; the switch on the mode has
\* no statement in any case
snmp_table_handler(rows, table, sh, mode, requestvb, fp) ==
    LET ys == table_ys(sh)
        ylist == yang_find(ys, Y_LIST, NULL)
        c == clixon_table_create(table, ys, rows, fp = "clixon_table_create")
    IN  IF TableNoList(ylist)
        THEN TableOut(SNMP_ERR_NOERROR, table, <<>>, 0, "none")
        ELSE IF c.ret < 0
        THEN TableOut(TableRetvalInit, c.table, <<RpcGet(sh)>>, 0,
                      "clixon_table_create")
        ELSE TableOut(SNMP_ERR_NOERROR, c.table, <<RpcGet(sh)>>, 0, "none")

TableFails == {"none", "clixon_table_create"}

\* The modes the runtime passes to the table handler
TableModes ==
    {MODE_GET, MODE_GETNEXT, MODE_SET_RESERVE1, MODE_SET_RESERVE2,
     MODE_SET_ACTION, MODE_SET_COMMIT}

(***************************************************************************)
(* The logger (clixon_log.c).                                              *)
(***************************************************************************)
\* Debug levels tried
MaxLevel == 2

\* Streams the process can open
MaxFiles == 3

\* syslog(3) priorities
LOG_NOTICE == 5

LOG_DEBUG == 7

\* The bits of the log flags
CLICON_LOG_SYSLOG == "syslog"

CLICON_LOG_STDERR == "stderr"

CLICON_LOG_STDOUT == "stdout"

CLICON_LOG_FILE == "file"

LogFlags == {CLICON_LOG_SYSLOG, CLICON_LOG_STDERR, CLICON_LOG_STDOUT, CLICON_LOG_FILE}

\* The streams (FILE *); NoFile is the NULL stream
Files == 1..MaxFiles

NoFile == 0

\* The logger's statics _clixon_debug, _logflags and _logfile, with the
\* state of every stream of the process
LogState(debug, flags, file, st) ==
    [debug |-> debug, flags |-> flags, file |-> file, streams |-> st]

\* What a call of the logger leaves: the statics, the value returned, the
\* destinations the message was written to, and the undefined behaviour
\* met ("fclose": a stream closed again, "write": a closed stream written)
LogOut(lg, ret, printed, ub) ==
    [lg |-> lg, ret |-> ret, printed |-> printed, ub |-> ub]

\* fopen: the next stream of the process, NoFile when the open fails
fopen(st, ok) ==
    IF ok /\ \E f \in Files : st[f] = "unopened"
    THEN CHOOSE f \in Files :
            /\ st[f] = "unopened"
            /\ \A g \in Files : st[g] = "unopened" => f <= g
    ELSE NoFile

\* if (_logfile) fclose(_logfile): _logfile keeps the closed stream
fclose_logfile(lg) ==
    IF lg.file # NoFile
    THEN LogOut([lg EXCEPT !.streams[lg.file] = "closed"], 0, {},
                IF lg.streams[lg.file] = "open" THEN "none" ELSE "fclose")
    ELSE LogOut(lg, 0, {}, "none")

clicon_log_init(lg, flags) == LogOut([lg EXCEPT !.flags = flags], 0, {}, "none")

clicon_log_exit(lg) == fclose_logfile(lg)

clicon_log_file(lg, ok) ==
    LET c == fclose_logfile(lg)
        f == fopen(c.lg.streams, ok)
    IN  IF f = NoFile
        THEN LogOut([c.lg EXCEPT !.file = NoFile], -1, {}, c.ub)
        ELSE LogOut([c.lg EXCEPT !.file = f, !.streams[f] = "open"], 0, {}, c.ub)

\* if (_clixon_debug == 0 && level >= LOG_DEBUG) goto done
DebugFiltered(lg, level) == lg.debug = 0 /\ level >= LOG_DEBUG

clicon_log_str(lg, level) ==
    LET sys == IF CLICON_LOG_SYSLOG \in lg.flags THEN {CLICON_LOG_SYSLOG} ELSE {}
        err == IF CLICON_LOG_STDERR \in lg.flags THEN {CLICON_LOG_STDERR} ELSE {}
        out == IF CLICON_LOG_STDOUT \in lg.flags THEN {CLICON_LOG_STDOUT} ELSE {}
        tofile == CLICON_LOG_FILE \in lg.flags /\ lg.file # NoFile
        fil == IF tofile THEN {CLICON_LOG_FILE} ELSE {}
    IN  IF DebugFiltered(lg, level)
        THEN LogOut(lg, 0, sys, "none")
        ELSE LogOut(lg, 0, sys \cup err \cup out \cup fil,
                    IF tofile /\ lg.streams[lg.file] # "open" THEN "write" ELSE "none")

\* nomem: malloc returns NULL
clicon_log(lg, level, nomem) ==
    IF nomem
    THEN LogOut(lg, -1, {}, "none")
    ELSE [clicon_log_str(lg, level) EXCEPT !.ret = 0]

\* f is NoFile or a stream the caller holds open
clicon_debug_init(lg, dbglevel, f) ==
    LET lg1 == [lg EXCEPT !.debug = dbglevel]
        c == fclose_logfile(lg1)
    IN  IF f # NoFile
        THEN LogOut([c.lg EXCEPT !.file = f], 0, {}, c.ub)
        ELSE LogOut(lg1, 0, {}, "none")

clicon_debug(lg, dbglevel, nomem) ==
    IF dbglevel > lg.debug
    THEN LogOut(lg, 0, {}, "none")
    ELSE IF nomem
    THEN LogOut(lg, -1, {}, "none")
    ELSE [clicon_log_str(lg, LOG_DEBUG) EXCEPT !.ret = 0]


(***************************************************************************)
(* State.                                                                  *)
(***************************************************************************)
VARIABLES
    running,    \* the datastore's running configuration
    candidate,  \* the datastore's candidate configuration
    reqerr,     \* request context: the error set on each object's request
    last,       \* the handler invocation that has just returned, if any
    aborted,    \* the process aborted in an assertion
    ndebug,     \* the build compiles assertions out (NDEBUG)
    asp,        \* the agent runtime's session: the set transaction under way
    h,          \* the handle: the schema tree (yspec) and the options
    inited,     \* yang_modules_init: "no", or how it returned: "ok", "failed"
    mlast,      \* the yang_modules_state_get call that has just returned
    dsrows,     \* the list instances the datastore holds, by key, in order
    tables,     \* the contents of each table binding's sh_table
    walk,       \* the runtime's table walk under way
    tlast,      \* the table handler invocation that has just returned
    rt,         \* a value on its way through a set and a read of a scalar
    clixon_debug, \* _clixon_debug: the global debug level
    logflags,   \* _logflags: the destinations of log messages
    logfile,    \* _logfile: the stream installed as log file, or NoFile
    streams,    \* every stream of the process: "unopened", "open", "closed"
    dbginit,    \* clicon_debug_init has been called
    llast       \* the logger call that has just returned

vars == <<running, candidate, reqerr, last, aborted, ndebug, asp,
          h, inited, mlast, dsrows, tables, walk, tlast, rt,
          clixon_debug, logflags, logfile, streams, dbginit, llast>>

\* The state of the logger
logvars == <<clixon_debug, logflags, logfile, streams, dbginit, llast>>

\* The state of a round trip
transvars == <<rt>>

\* The state of the table handler
tablevars == <<dsrows, tables, walk, tlast>>

\* The state of the module library
modvars == <<h, inited, mlast>>

\* The state of the SNMP handlers and of the datastore
snmpvars == <<running, candidate, reqerr, last, aborted, ndebug, asp>>

\* What the scalar handler, the module library and the table handler
\* leave alone
notsnmp == <<modvars, tablevars, transvars, logvars>>

notmod == <<snmpvars, tablevars, transvars, logvars>>

nottable == <<snmpvars, modvars, transvars, logvars>>

nottrans == <<snmpvars, modvars, tablevars, logvars>>

notlog == <<snmpvars, modvars, tablevars, transvars>>

\* Configurations the datastore can hold at start
StartConfigs ==
    {cfg \in [Objs -> {NULL} \cup {IntToStr(i) : i \in IntVals} \cup OctetVals] :
        /\ cfg["A"] = NULL \/ IsIntStr(cfg["A"])
        /\ cfg["B"] = NULL \/ cfg["B"] \in OctetVals}

\* No invocation has just returned
NoCall ==
    [called |-> FALSE, obj |-> "A", mode |-> MODE_SET_FREE,
     vb |-> NullVarbind, failed |-> "none", ret |-> SNMP_ERR_NOERROR,
     err |-> 0, rpcs |-> <<>>, leaked |-> {},
     pre |-> [running |-> [o \in Objs |-> NULL],
              candidate |-> [o \in Objs |-> NULL],
              reqerr |-> [o \in Objs |-> 0],
              vb |-> NullVarbind]]

IdleSession == [phase |-> "IDLE", pdu |-> <<>>, idx |-> 1, status |-> 0]

\* No yang_modules_state_get call has just returned
NoStateGet ==
    [called |-> FALSE, yspec |-> Stmt("spec", <<>>, "none", <<>>),
     pre |-> <<>>, out |-> StateGetOut(0, <<>>, NULL, "none", FALSE)]

\* The module library before any schema is loaded
ModIdle ==
    /\ h = [yspec |-> Stmt("spec", <<>>, "none", <<>>),
            options |-> [CLICON_MODULE_LIBRARY_RFC7895 |-> <<"false">>,
                         CLICON_MODULE_SET_ID |-> NULL]]
    /\ inited = "no"
    /\ mlast = NoStateGet

\* No table handler invocation has just returned
NoTableCall ==
    [called |-> FALSE, sh |-> "T", mode |-> MODE_GET, step |-> 0,
     vb |-> NullVarbind,
     out |-> TableOut(SNMP_ERR_NOERROR, <<>>, <<>>, 0, "none"),
     pre |-> [dsrows |-> <<>>, table |-> <<>>]]

NoWalk == [active |-> FALSE, sh |-> "T", step |-> 0, start |-> <<>>]

\* No table in use
TableIdle ==
    /\ dsrows = <<>>
    /\ tables = [t \in Tables |-> <<>>]
    /\ walk = NoWalk
    /\ tlast = NoTableCall

\* No round trip under way
TransIdle ==
    rt = [stage |-> "idle", obj |-> "A", vb0 |-> NullVarbind, str0 |-> NULL,
          vb |-> NullVarbind,
          db |-> [running |-> [o \in Objs |-> NULL],
                  candidate |-> [o \in Objs |-> NULL]]]

\* No logger call has returned
NoLogCall ==
    [called |-> FALSE, op |-> "none", level |-> 0, ret |-> 0, printed |-> {},
     ub |-> "none", nomem |-> FALSE, crashed |-> FALSE]

\* The logger as the program starts: the statics' initialisers
LogIdle ==
    /\ clixon_debug = 0
    /\ logflags = {}
    /\ logfile = NoFile
    /\ streams = [f \in Files |-> "unopened"]
    /\ dbginit = FALSE
    /\ llast = NoLogCall

\* The scalar handlers and the datastore at rest
SnmpIdle ==
    /\ running = [o \in Objs |-> NULL]
    /\ candidate = running
    /\ reqerr = [o \in Objs |-> 0]
    /\ last = NoCall
    /\ aborted = FALSE
    /\ ndebug = FALSE
    /\ asp = IdleSession

Init ==
    /\ LogIdle
    /\ TableIdle
    /\ TransIdle
    /\ running \in StartConfigs
    /\ candidate = running
    /\ reqerr = [o \in Objs |-> 0]
    /\ last = NoCall
    /\ aborted = FALSE
    /\ ndebug \in BOOLEAN
    /\ asp = IdleSession
    /\ ModIdle

\* Faulty variant of SetRequestError: the error is set on every request of the PDU
SetRequestErrorAll(re, o, err) ==
    IF err # 0 THEN [p \in Objs |-> err] ELSE re

\* netsnmp_set_request_error on the request of object o
SetRequestError(re, o, err) == IF err # 0 THEN [re EXCEPT ![o] = err] ELSE re

\* One invocation of the scalar handler by the runtime, for the request of
\* object o.  last records what the invocation was given (pre) and returned.
Invoke(o, mode, vb, fp) ==
    \E r \in {snmp_scalar_handler([running |-> running, candidate |-> candidate],
                                  o, mode, vb, fp, ndebug)} :
        /\ ~aborted
        /\ running' = r.out.db.running
        /\ candidate' = r.out.db.candidate
        /\ reqerr' = SetRequestError(reqerr, o, r.out.err)
        /\ last' = [called |-> TRUE, obj |-> o, mode |-> mode,
                    vb |-> r.out.vb, failed |-> r.out.failed,
                    ret |-> r.out.ret, err |-> r.out.err,
                    rpcs |-> r.out.rpcs,
                    leaked |-> r.out.acquired \ r.out.released,
                    pre |-> [running |-> running, candidate |-> candidate,
                             reqerr |-> reqerr, vb |-> vb]]
        /\ aborted' = r.abort
        /\ UNCHANGED ndebug
        /\ UNCHANGED notsnmp

(***************************************************************************)
(* Spec: the runtime invokes the handler in any mode, for any object, in   *)
(* any order; it takes each result before it invokes the handler again.    *)
(***************************************************************************)
Read ==
    /\ ~last.called
    /\ \E o \in Objs, fp \in ModeFails(MODE_GET) :
            Invoke(o, MODE_GET, NullVarbind, fp)
    /\ UNCHANGED asp

ReadNext ==
    /\ ~last.called
    /\ \E o \in Objs, fp \in ModeFails(MODE_GETNEXT) :
            Invoke(o, MODE_GETNEXT, NullVarbind, fp)
    /\ UNCHANGED asp

Reserve1 ==
    /\ ~last.called
    /\ \E o \in Objs, vb \in SetVarbinds, fp \in ModeFails(MODE_SET_RESERVE1) :
            Invoke(o, MODE_SET_RESERVE1, vb, fp)
    /\ UNCHANGED asp

Reserve2 ==
    /\ ~last.called
    /\ \E o \in Objs, vb \in SetVarbinds, fp \in ModeFails(MODE_SET_RESERVE2) :
            Invoke(o, MODE_SET_RESERVE2, vb, fp)
    /\ UNCHANGED asp

Action ==
    /\ ~last.called
    /\ \E o \in Objs, vb \in SetVarbinds, fp \in ModeFails(MODE_SET_ACTION) :
            Invoke(o, MODE_SET_ACTION, vb, fp)
    /\ UNCHANGED asp

Undo ==
    /\ ~last.called
    /\ \E o \in Objs, vb \in SetVarbinds, fp \in ModeFails(MODE_SET_UNDO) :
            Invoke(o, MODE_SET_UNDO, vb, fp)
    /\ UNCHANGED asp

Commit ==
    /\ ~last.called
    /\ \E o \in Objs, vb \in SetVarbinds, fp \in ModeFails(MODE_SET_COMMIT) :
            Invoke(o, MODE_SET_COMMIT, vb, fp)
    /\ UNCHANGED asp

Free ==
    /\ ~last.called
    /\ \E o \in Objs, vb \in SetVarbinds, fp \in ModeFails(MODE_SET_FREE) :
            Invoke(o, MODE_SET_FREE, vb, fp)
    /\ UNCHANGED asp

\* The runtime takes the returned status
Return ==
    /\ last.called
    /\ ~aborted
    /\ last' = NoCall
    /\ UNCHANGED <<running, candidate, reqerr, aborted, ndebug, asp>>
    /\ UNCHANGED notsnmp

\* The runtime starts a new PDU: a fresh request context
NewPdu ==
    /\ ~last.called
    /\ ~aborted
    /\ reqerr' = [o \in Objs |-> 0]
    /\ UNCHANGED <<running, candidate, last, aborted, ndebug, asp>>
    /\ UNCHANGED notsnmp

Next ==
    \/ Read
    \/ ReadNext
    \/ Reserve1
    \/ Reserve2
    \/ Action
    \/ Undo
    \/ Commit
    \/ Free
    \/ Return
    \/ NewPdu

Spec == Init /\ [][Next]_vars

(***************************************************************************)
(* TxnSpec: the agent runtime drives set transactions.  A set PDU names    *)
(* one or more objects; the runtime invokes the handler of every object of *)
(* the PDU in one phase, then moves to the next phase: RESERVE1, RESERVE2, *)
(* ACTION, COMMIT when no object failed, FREE after a failed reserve, UNDO *)
(* after a failed action; FREE may follow COMMIT and UNDO.                 *)
(***************************************************************************)
HandlerPhases == {"RESERVE1", "RESERVE2", "ACTION", "COMMIT", "UNDO", "FREE"}

PhaseMode(phase) ==
    CASE phase = "RESERVE1" -> MODE_SET_RESERVE1
      [] phase = "RESERVE2" -> MODE_SET_RESERVE2
      [] phase = "ACTION" -> MODE_SET_ACTION
      [] phase = "COMMIT" -> MODE_SET_COMMIT
      [] phase = "UNDO" -> MODE_SET_UNDO
      [] OTHER -> MODE_SET_FREE

NextPhases(phase, status) ==
    CASE phase = "RESERVE1" ->
            IF status # SNMP_ERR_NOERROR THEN {"FREE"} ELSE {"RESERVE2"}
      [] phase = "RESERVE2" ->
            IF status # SNMP_ERR_NOERROR THEN {"FREE"} ELSE {"ACTION"}
      [] phase = "ACTION" ->
            IF status # SNMP_ERR_NOERROR THEN {"UNDO"} ELSE {"COMMIT"}
      [] phase = "COMMIT" -> {"FREE", "FINISHED"}
      [] phase = "UNDO" -> {"FREE", "FINISHED"}
      [] OTHER -> {"FINISHED"}

\* The set PDUs: requests for distinct objects, each with its varbind
SetPdus ==
    {p \in UNION {[1..n -> [obj : Objs, vb : SetVarbinds]] : n \in 1..MaxPdu} :
        \A i, j \in 1..Len(p) : i # j => p[i].obj # p[j].obj}

RtBegin ==
    /\ asp.phase = "IDLE"
    /\ ~aborted
    /\ \E p \in SetPdus :
            asp' = [phase |-> "RESERVE1", pdu |-> p, idx |-> 1,
                    status |-> SNMP_ERR_NOERROR]
    /\ reqerr' = [o \in Objs |-> 0]
    /\ last' = NoCall
    /\ UNCHANGED <<running, candidate, aborted, ndebug>>
    /\ UNCHANGED notsnmp

\* The handler of the next object of the PDU is invoked in the current phase
RtDispatch ==
    /\ asp.phase \in HandlerPhases
    /\ asp.idx <= Len(asp.pdu)
    /\ \E fp \in ModeFails(PhaseMode(asp.phase)) :
            Invoke(asp.pdu[asp.idx].obj, PhaseMode(asp.phase),
                   asp.pdu[asp.idx].vb, fp)
    /\ asp' = [asp EXCEPT
                !.idx = @ + 1,
                !.status = IF last'.ret # SNMP_ERR_NOERROR THEN last'.ret
                           ELSE IF last'.err # 0 THEN last'.err
                           ELSE @]

\* Every object was handled in this phase: on to the next
RtAdvance ==
    /\ asp.phase \in HandlerPhases
    /\ asp.idx > Len(asp.pdu)
    /\ ~aborted
    /\ \E ph \in NextPhases(asp.phase, asp.status) :
            asp' = [asp EXCEPT !.phase = ph, !.idx = 1]
    /\ UNCHANGED <<running, candidate, reqerr, last, aborted, ndebug>>
    /\ UNCHANGED notsnmp

\* The transaction has ended: the response is sent
RtFinish ==
    /\ asp.phase = "FINISHED"
    /\ asp' = IdleSession
    /\ last' = NoCall
    /\ UNCHANGED <<running, candidate, reqerr, aborted, ndebug>>
    /\ UNCHANGED notsnmp

TxnNext ==
    \/ RtBegin
    \/ RtDispatch
    \/ RtAdvance
    \/ RtFinish

TxnSpec == Init /\ [][TxnNext]_vars

(***************************************************************************)
(* ModSpec: the module library.  The process loads its schema, calls      *)
(* yang_modules_init once at start and, when that has returned success,    *)
(* serves requests for the module state with yang_modules_state_get.       *)
(***************************************************************************)
\* The modules the data directory holds, by name.  A: two revisions, or
\* one, or none; a namespace, none, or one with an ampersand; features
\* enabled, disabled and without flag; submodules with and without
\* revision.
Revisions ==
    {<<>>,
     <<Stmt(Y_REVISION, <<"2020-01-01">>, "none", <<>>)>>,
     <<Stmt(Y_REVISION, <<"2020-01-01">>, "none", <<>>),
       Stmt(Y_REVISION, <<"2019-01-01">>, "none", <<>>)>>}

Namespaces ==
    {<<>>,
     <<Stmt(Y_NAMESPACE, <<"urn:a">>, "none", <<>>)>>,
     <<Stmt(Y_NAMESPACE, <<"urn:a?x", "&", "y">>, "none", <<>>)>>}

Features ==
    {<<>>,
     <<Stmt(Y_FEATURE, <<"f1">>, "true", <<>>),
       Stmt(Y_FEATURE, <<"f2">>, "false", <<>>)>>,
     <<Stmt(Y_FEATURE, <<"f3">>, "none", <<>>),
       Stmt(Y_LEAF, <<"l">>, "none", <<>>),
       Stmt(Y_FEATURE, <<"f2">>, "true", <<>>)>>}

Submodules ==
    {<<>>,
     <<Stmt(Y_SUBMODULE, <<"a-sub">>, "none",
            <<Stmt(Y_REVISION, <<"2018-01-01">>, "none", <<>>)>>),
       Stmt(Y_SUBMODULE, <<"a-sub2">>, "none",
            <<Stmt(Y_FEATURE, <<"f4">>, "true", <<>>)>>)>>}

ModulesA ==
    {Stmt(Y_MODULE, <<"A">>, "none", f \o r \o n \o sm) :
        r \in Revisions, n \in Namespaces, f \in Features, sm \in Submodules}

ModulesB ==
    {Stmt(Y_MODULE, <<"B">>, "none", <<>>),
     Stmt(Y_MODULE, <<"B">>, "none",
          <<Stmt(Y_NAMESPACE, <<"urn:b">>, "none", <<>>),
            Stmt(Y_FEATURE, <<"f2">>, "false", <<>>),
            Stmt(Y_REVISION, <<"2021-01-01">>, "none", <<>>)>>)}

\* A submodule loaded at the top level of the schema tree
TopSubmodule ==
    Stmt(Y_SUBMODULE, <<"s">>, "none",
         <<Stmt(Y_REVISION, <<"2017-01-01">>, "none", <<>>)>>)

\* The inventory module as the data directory may hold it
YangLibraryFiles ==
    {Stmt(Y_MODULE, <<"ietf-yang-library">>, "none", r \o n) :
        r \in {<<>>, <<Stmt(Y_REVISION, <<"2016-06-21">>, "none", <<>>)>>},
        n \in {<<>>, <<Stmt(Y_NAMESPACE, <<"urn:yl">>, "none", <<>>)>>}}

\* The application's schema trees: up to MaxMods modules with distinct
\* names in either order, possibly a top-level submodule, and possibly the
\* inventory module loaded as an import
RECURSIVE SeqsOver(_, _)
SeqsOver(S, n) ==
    IF n = 0 THEN {<<>>}
    ELSE SeqsOver(S, n - 1)
         \cup {Append(q, x) : q \in SeqsOver(S, n - 1), x \in S}

NodeSeqs ==
    {q \in SeqsOver(ModulesA \cup ModulesB \cup {TopSubmodule}, MaxMods) :
        \A i, j \in 1..Len(q) : i # j => q[i].argument # q[j].argument}

StartSpecs ==
    {Stmt("spec", <<>>, "none", q \o l) :
        q \in NodeSeqs,
        l \in {<<>>} \cup {<<y>> : y \in YangLibraryFiles}}

StartOptions ==
    [CLICON_MODULE_LIBRARY_RFC7895 : {<<"true">>, <<"false">>},
     CLICON_MODULE_SET_ID : {NULL, <<"42">>}]

\* Result trees a caller hands in: empty, or holding other state data
XretInputs == {<<>>, <<Xml("interfaces", <<"urn:if">>, <<>>, <<>>)>>}

ModInit ==
    /\ running = [o \in Objs |-> NULL]
    /\ candidate = running
    /\ reqerr = [o \in Objs |-> 0]
    /\ last = NoCall
    /\ aborted = FALSE
    /\ ndebug = FALSE
    /\ asp = IdleSession
    /\ h \in [yspec : StartSpecs, options : StartOptions]
    /\ inited = "no"
    /\ mlast = NoStateGet
    /\ TableIdle
    /\ TransIdle
    /\ LogIdle

\* yang_modules_init, called once at start
ModulesInit ==
    /\ inited = "no"
    /\ \E ylibfile \in YangLibraryFiles, fail \in BOOLEAN :
        \E r \in {yang_modules_init(h, ylibfile, fail)} :
            /\ h' = r.h
            /\ inited' = IF r.ret < 0 THEN "failed" ELSE "ok"
    /\ UNCHANGED mlast
    /\ UNCHANGED notmod

\* A request for the module state, once initialisation has succeeded
StateGet ==
    /\ inited = "ok"
    /\ ~mlast.called
    /\ \E xret \in XretInputs, fp \in StateGetFails, nullfmt \in NullFormats :
        \E r \in {yang_modules_state_get(h, h.yspec, xret, fp, nullfmt)} :
            mlast' = [called |-> TRUE, yspec |-> h.yspec, pre |-> xret,
                      out |-> r]
    /\ UNCHANGED <<h, inited>>
    /\ UNCHANGED notmod

\* The caller takes the status and the result tree
StateReturn ==
    /\ mlast.called
    /\ ~mlast.out.crashed
    /\ mlast' = NoStateGet
    /\ UNCHANGED <<h, inited>>
    /\ UNCHANGED notmod

ModNext ==
    \/ ModulesInit
    \/ StateGet
    \/ StateReturn

ModSpec == ModInit /\ [][ModNext]_vars

(***************************************************************************)
(* TableSpec: the table handler.  The runtime walks a table with a         *)
(* sequence of GETNEXT invocations, and invokes the handler for single     *)
(* cells in MODE_GET and in the set phases; meanwhile other clients of the *)
(* datastore insert and remove list instances.                             *)
(***************************************************************************)
RowKeys == 1..MaxRows

\* The list instances a datastore can hold: distinct keys in document order
RowSeqs ==
    {q \in SeqsOver(RowKeys, MaxRows) :
        \A i, j \in 1..Len(q) : i # j => q[i] # q[j]}

TableInit ==
    /\ LogIdle
    /\ SnmpIdle
    /\ ModIdle
    /\ TransIdle
    /\ dsrows \in RowSeqs
    /\ tables = [t \in Tables |-> <<>>]
    /\ walk = NoWalk
    /\ tlast = NoTableCall

\* One invocation of the table handler by the runtime
TableInvoke(sh, mode, vb, fp, step) ==
    \E r \in {snmp_table_handler(dsrows, tables[sh], sh, mode, vb, fp)} :
        /\ tables' = [tables EXCEPT ![sh] = r.table]
        /\ tlast' = [called |-> TRUE, sh |-> sh, mode |-> mode,
                     step |-> step, vb |-> vb, out |-> r,
                     pre |-> [dsrows |-> dsrows, table |-> tables[sh]]]

\* The first GETNEXT of a walk
WalkStart ==
    /\ ~tlast.called
    /\ ~walk.active
    /\ \E sh \in Tables, fp \in TableFails :
        /\ TableInvoke(sh, MODE_GETNEXT, NullVarbind, fp, 1)
        /\ walk' = [active |-> TRUE, sh |-> sh, step |-> 1,
                    start |-> tables'[sh]]
    /\ UNCHANGED dsrows
    /\ UNCHANGED nottable

\* A further GETNEXT of the walk under way
WalkStep ==
    /\ ~tlast.called
    /\ walk.active
    /\ walk.step < MaxWalk
    /\ \E fp \in TableFails :
        TableInvoke(walk.sh, MODE_GETNEXT, NullVarbind, fp, walk.step + 1)
    /\ walk' = [walk EXCEPT !.step = @ + 1]
    /\ UNCHANGED dsrows
    /\ UNCHANGED nottable

\* The walk has reached the end of the table
WalkEnd ==
    /\ ~tlast.called
    /\ walk.active
    /\ walk' = NoWalk
    /\ UNCHANGED <<dsrows, tables, tlast>>
    /\ UNCHANGED nottable

\* MODE_GET or a set phase for a cell of the table
TableCell ==
    /\ ~tlast.called
    /\ \E sh \in Tables, mode \in TableModes \ {MODE_GETNEXT},
          vb \in SetVarbinds, fp \in TableFails :
        TableInvoke(sh, mode, vb, fp, 0)
    /\ UNCHANGED <<dsrows, walk>>
    /\ UNCHANGED nottable

\* The runtime takes the returned status
TableReturn ==
    /\ tlast.called
    /\ tlast' = NoTableCall
    /\ UNCHANGED <<dsrows, tables, walk>>
    /\ UNCHANGED nottable

\* Another client of the datastore inserts a list instance
DsInsert ==
    /\ ~tlast.called
    /\ \E k \in RowKeys :
        /\ \A i \in 1..Len(dsrows) : dsrows[i] # k
        /\ dsrows' = Append(dsrows, k)
    /\ UNCHANGED <<tables, walk, tlast>>
    /\ UNCHANGED nottable

\* Another client of the datastore removes a list instance
DsRemove ==
    /\ ~tlast.called
    /\ \E i \in 1..Len(dsrows) :
        dsrows' = SubSeq(dsrows, 1, i - 1) \o SubSeq(dsrows, i + 1, Len(dsrows))
    /\ UNCHANGED <<tables, walk, tlast>>
    /\ UNCHANGED nottable

TableNext ==
    \/ WalkStart
    \/ WalkStep
    \/ WalkEnd
    \/ TableCell
    \/ TableReturn
    \/ DsInsert
    \/ DsRemove

TableSpec == TableInit /\ [][TableNext]_vars

(***************************************************************************)
(* TransSpec: a value makes the round trip through the scalar handler.     *)
(* Either a protocol value is set (Action, Commit) and then read, or a     *)
(* stored string is read and the value read is set again (Action).  No     *)
(* call fails.                                                             *)
(***************************************************************************)
MaxVal == 12

\* The values of the int32 leaf and of the string leaf
TransInts == (0 - MaxVal)..MaxVal

TransStrs == {<<"a">>, <<"a", "b">>, <<"-">>, <<"0", "7">>, <<"b", " ">>}

\* The protocol values of the tag of object o's type
TagValues(o) ==
    IF sh_ys(o) = "int32"
    THEN {Varbind(ASN_INTEGER, i, NULL) : i \in TransInts}
    ELSE {Varbind(ASN_OCTET_STR, 0, str) : str \in TransStrs}

\* The strings valid for object o's type, in canonical form
TypeStrings(o) ==
    IF sh_ys(o) = "int32" THEN {IntToStr(i) : i \in TransInts}
    ELSE TransStrs

EmptyDb ==
    [running |-> [o \in Objs |-> NULL], candidate |-> [o \in Objs |-> NULL]]

TransInit ==
    /\ LogIdle
    /\ SnmpIdle
    /\ ModIdle
    /\ TableIdle
    /\ \/ \E o \in Objs : \E vb \in TagValues(o) :
            rt = [stage |-> "value", obj |-> o, vb0 |-> vb, str0 |-> NULL,
                  vb |-> vb, db |-> EmptyDb]
       \/ \E o \in Objs : \E str \in TypeStrings(o) :
            rt = [stage |-> "stored", obj |-> o, vb0 |-> NullVarbind,
                  str0 |-> str, vb |-> NullVarbind,
                  db |-> [running |-> [EmptyDb.running EXCEPT ![o] = str],
                          candidate |-> [EmptyDb.running EXCEPT ![o] = str]]]

\* The handler invoked for the round trip's object in the given mode
TransInvoke(mode, vb) ==
    snmp_scalar_handler(rt.db, rt.obj, mode, vb, "none", FALSE).out

\* The value is set: MODE_SET_ACTION
TransAction ==
    /\ rt.stage \in {"value", "got"}
    /\ \E r \in {TransInvoke(MODE_SET_ACTION, rt.vb)} :
        /\ r.ret = SNMP_ERR_NOERROR
        /\ r.err = 0
        /\ rt' = [rt EXCEPT !.db = r.db,
                            !.stage = IF rt.stage = "value" THEN "staged"
                                      ELSE "restaged"]
    /\ UNCHANGED nottrans

\* MODE_SET_COMMIT
TransCommit ==
    /\ rt.stage = "staged"
    /\ \E r \in {TransInvoke(MODE_SET_COMMIT, rt.vb)} :
        /\ r.ret = SNMP_ERR_NOERROR
        /\ rt' = [rt EXCEPT !.db = r.db, !.stage = "committed"]
    /\ UNCHANGED nottrans

\* The value is read: MODE_GET, after the commit, of a stored value, or
\* while the edit is only staged
TransRead ==
    /\ rt.stage \in {"committed", "stored", "staged"}
    /\ \E r \in {TransInvoke(MODE_GET, NullVarbind)} :
        /\ r.ret = SNMP_ERR_NOERROR
        /\ rt.stage # "staged" => r.err = 0
        /\ rt' = [rt EXCEPT !.vb = r.vb,
                            !.stage = CASE rt.stage = "committed" -> "read"
                                        [] rt.stage = "stored" -> "got"
                                        [] OTHER -> "uncommitted"]
    /\ UNCHANGED nottrans

TransNext ==
    \/ TransAction
    \/ TransCommit
    \/ TransRead

TransSpec == TransInit /\ [][TransNext]_vars

(***************************************************************************)
(* The logger: the calls a program makes, in any order.                    *)
(***************************************************************************)
\* Log priorities a program logs at
LogLevels == {LOG_NOTICE, LOG_DEBUG}

\* Debug levels a program sets and logs at
DebugLevels == 0..MaxLevel

\* The statics, as one value
Logger == LogState(clixon_debug, logflags, logfile, streams)

\* A call returns r: the statics are stored and the call recorded.  A call
\* that met undefined behaviour either went on or ended the process.
LogDone(op, level, nomem, r) ==
    /\ clixon_debug' = r.lg.debug
    /\ logflags' = r.lg.flags
    /\ logfile' = r.lg.file
    /\ streams' = r.lg.streams
    /\ \E crashed \in (IF r.ub = "none" THEN {FALSE} ELSE BOOLEAN) :
        llast' = [called |-> TRUE, op |-> op, level |-> level, ret |-> r.ret,
                  printed |-> r.printed, ub |-> r.ub, nomem |-> nomem,
                  crashed |-> crashed]

LogReady == ~llast.called

LogInit ==
    /\ SnmpIdle
    /\ ModIdle
    /\ TableIdle
    /\ TransIdle
    /\ LogIdle

LogInitCall ==
    /\ LogReady
    /\ \E flags \in SUBSET LogFlags :
        \E r \in {clicon_log_init(Logger, flags)} : LogDone("clicon_log_init", 0, FALSE, r)
    /\ UNCHANGED <<dbginit, notlog>>

LogFile ==
    /\ LogReady
    /\ \E ok \in BOOLEAN :
        \E r \in {clicon_log_file(Logger, ok)} : LogDone("clicon_log_file", 0, FALSE, r)
    /\ UNCHANGED <<dbginit, notlog>>

\* clicon_debug_init without a stream, or with the stream installed already
DebugInit ==
    /\ LogReady
    /\ \E dbglevel \in DebugLevels :
        \E f \in {NoFile} \cup {g \in {logfile} : g # NoFile /\ streams[g] = "open"} :
            \E r \in {clicon_debug_init(Logger, dbglevel, f)} :
                LogDone("clicon_debug_init", dbglevel, FALSE, r)
    /\ dbginit' = TRUE
    /\ UNCHANGED notlog

\* clicon_debug_init with a stream the caller has just opened
DebugInitNewFile ==
    /\ LogReady
    /\ fopen(streams, TRUE) # NoFile
    /\ \E dbglevel \in DebugLevels :
        \E f \in {fopen(streams, TRUE)} :
            \E r \in {clicon_debug_init(
                        LogState(clixon_debug, logflags, logfile,
                                 [streams EXCEPT ![f] = "open"]), dbglevel, f)} :
                LogDone("clicon_debug_init", dbglevel, FALSE, r)
    /\ dbginit' = TRUE
    /\ UNCHANGED notlog

LogExit ==
    /\ LogReady
    /\ \E r \in {clicon_log_exit(Logger)} : LogDone("clicon_log_exit", 0, FALSE, r)
    /\ UNCHANGED <<dbginit, notlog>>

Log ==
    /\ LogReady
    /\ \E level \in LogLevels, nomem \in BOOLEAN :
        \E r \in {clicon_log(Logger, level, nomem)} : LogDone("clicon_log", level, nomem, r)
    /\ UNCHANGED <<dbginit, notlog>>

Debug ==
    /\ LogReady
    /\ \E dbglevel \in DebugLevels, nomem \in BOOLEAN :
        \E r \in {clicon_debug(Logger, dbglevel, nomem)} :
            LogDone("clicon_debug", dbglevel, nomem, r)
    /\ UNCHANGED <<dbginit, notlog>>

\* The caller goes on after a call that did not end the process
LogReturn ==
    /\ llast.called
    /\ ~llast.crashed
    /\ llast' = NoLogCall
    /\ UNCHANGED <<clixon_debug, logflags, logfile, streams, dbginit, notlog>>

LogNext ==
    \/ LogInitCall
    \/ LogFile
    \/ DebugInit
    \/ DebugInitNewFile
    \/ LogExit
    \/ Log
    \/ Debug
    \/ LogReturn

LogSpec == LogInit /\ [][LogNext]_vars

(***************************************************************************)
(* Properties.                                                             *)
(***************************************************************************)
\* The invocation recorded in last derived the leaf's ASN.1 tag
TypeDerived == last.failed # "yang2snmp_types"

\* The ASN.1 tag derived from the schema type of object o
DerivedTag(o) == yang2snmp_types(sh_ys(o), FALSE).asn1_type

\* The datastore is as the invocation recorded in last found it
DatastoreUnchanged ==
    running = last.pre.running /\ candidate = last.pre.candidate

\* C1: across all handler invocations, in any mode, for any object and in
\* any order, an invocation that changes the running configuration is a
\* Commit-mode invocation; an Action-mode invocation changes at most the
\* candidate.
C1_RunningOnlyByCommit ==
    last.called =>
        /\ running # last.pre.running => last.mode = MODE_SET_COMMIT
        /\ last.mode = MODE_SET_ACTION =>
                \A i \in 1..Len(last.rpcs) : last.rpcs[i].target = "candidate"

\* An Action-mode invocation has staged an edit: candidate changed, running
\* did not
C1_Witness ==
    /\ last.called
    /\ last.mode = MODE_SET_ACTION
    /\ candidate # last.pre.candidate
    /\ running = last.pre.running

\* C2: after an Undo-mode invocation for any one object has returned
\* success, the candidate equals running, whichever objects' edits were
\* staged.
C2_UndoDiscardsAll ==
    (last.called /\ last.mode = MODE_SET_UNDO
        /\ last.ret = SNMP_ERR_NOERROR)
    => candidate = running

\* Undo for object A has discarded an edit staged for object B
C2_Witness ==
    /\ last.called
    /\ last.mode = MODE_SET_UNDO
    /\ last.obj = "A"
    /\ last.ret = SNMP_ERR_NOERROR
    /\ last.pre.candidate["B"] # last.pre.running["B"]
    /\ last.pre.candidate["A"] = last.pre.running["A"]
    /\ candidate = running

\* C3: a Reserve1-mode invocation that derived the tag of the schema type
\* sets the wrong-type error on its request exactly when the incoming
\* varbind's tag differs from the derived tag; either way it returns
\* no-error, issues no RPC and leaves candidate and running unchanged.
C3_Reserve1TypeCheck ==
    (last.called /\ last.mode = MODE_SET_RESERVE1 /\ TypeDerived)
    => /\ (last.err = SNMP_ERR_WRONGTYPE)
            <=> (last.pre.vb.type # DerivedTag(last.obj))
       /\ last.err \in {0, SNMP_ERR_WRONGTYPE}
       /\ reqerr[last.obj] = IF last.pre.vb.type # DerivedTag(last.obj)
                             THEN SNMP_ERR_WRONGTYPE
                             ELSE last.pre.reqerr[last.obj]
       /\ last.ret = SNMP_ERR_NOERROR
       /\ last.rpcs = <<>>
       /\ DatastoreUnchanged

\* Reserve1 has flagged an octet string sent to the int32 leaf
C3_Witness ==
    /\ last.called
    /\ last.mode = MODE_SET_RESERVE1
    /\ last.obj = "A"
    /\ last.pre.vb.type = ASN_OCTET_STR
    /\ last.err = SNMP_ERR_WRONGTYPE
    /\ last.ret = SNMP_ERR_NOERROR

\* Another object of the PDU carries a request error
OtherObjectInError ==
    \E p \in Objs \ {last.obj} : last.pre.reqerr[p] # 0

\* C4: a Reserve1-mode invocation that finds a wrong type sets the error on
\* its own request and on no other; and while another object's request
\* carries an error, an Action-mode invocation in which no call fails still
\* stages its translated value in the candidate, and a successful
\* Commit-mode invocation still makes the candidate running.
C4_WrongTypeIsolation ==
    /\ (last.called /\ last.mode = MODE_SET_RESERVE1 /\ TypeDerived
            /\ last.pre.vb.type # DerivedTag(last.obj))
       => /\ reqerr[last.obj] = SNMP_ERR_WRONGTYPE
          /\ \A p \in Objs \ {last.obj} : reqerr[p] = last.pre.reqerr[p]
    /\ (last.called /\ last.mode = MODE_SET_ACTION /\ OtherObjectInError
            /\ last.failed = "none"
            /\ last.pre.vb.type = DerivedTag(last.obj))
       => /\ last.ret = SNMP_ERR_NOERROR
          /\ candidate[last.obj] =
                IF last.pre.vb.type = ASN_INTEGER
                THEN IntToStr(last.pre.vb.integer) ELSE last.pre.vb.string
          /\ \A p \in Objs \ {last.obj} : reqerr[p] = last.pre.reqerr[p]
    /\ (last.called /\ last.mode = MODE_SET_COMMIT /\ OtherObjectInError
            /\ last.failed = "none")
       => /\ last.ret = SNMP_ERR_NOERROR
          /\ running = last.pre.candidate

\* While B's request carries the wrong-type error, Commit for A has made
\* A's staged value part of running
C4_Witness ==
    /\ last.called
    /\ last.mode = MODE_SET_COMMIT
    /\ last.obj = "A"
    /\ last.ret = SNMP_ERR_NOERROR
    /\ last.pre.reqerr["B"] = SNMP_ERR_WRONGTYPE
    /\ reqerr["A"] = 0
    /\ last.pre.candidate["A"] # last.pre.running["A"]
    /\ running["A"] = last.pre.candidate["A"]

\* The get of the recorded Read was issued and answered with a data tree
QuerySucceeded ==
    last.failed \notin {"yang2snmp_types", "xml_nsctx_yang", "yang2xpath",
                        "clicon_rpc_get", "rpc_error"}

\* The string a Read of object o is to return: stored value, else default
ReadSource(o) ==
    IF last.pre.running[o] # NULL THEN last.pre.running[o] ELSE sh_default(o)

\* The protocol encoding of string valstr for the schema type of object o
ExpectedVarbind(o, valstr) ==
    IF sh_ys(o) = "int32" THEN Varbind(ASN_INTEGER, StrToInt(valstr), NULL)
    ELSE Varbind(ASN_OCTET_STR, 0, valstr)

\* The recorded invocation put no value into the varbind
NoValueSet == last.vb.integer = 0 /\ last.vb.string = NULL

RpcOrPathFailures ==
    {"clicon_rpc_get", "clicon_rpc_edit_config", "clicon_rpc_commit",
     "clicon_rpc_discard_changes", "yang2xpath", "yang2api_path_fmt",
     "api_path2xml", "api_path2xml_invalid"}

\* C6: when a datastore RPC or a path construction fails in a Read, Action,
\* Commit or Undo invocation, the handler returns the generic-error status
\* code, a member of the status vocabulary.
C6_FailureReturnsGenErr ==
    (last.called /\ last.failed \in RpcOrPathFailures
        /\ last.mode \in {MODE_GET, MODE_SET_ACTION, MODE_SET_COMMIT,
                          MODE_SET_UNDO})
    => last.ret = SNMP_ERR_GENERR /\ last.ret \in StatusVocabulary

\* C7 as stated: a get reply that holds an embedded rpc-error does not make
\* the handler invocation fail.
C7_RpcErrorRecoverable ==
    (last.called /\ last.mode = MODE_GET /\ last.failed = "rpc_error")
    => last.ret = SNMP_ERR_NOERROR

\* C7 as amended: a get reply that holds an embedded rpc-error makes the
\* Read fail at handler level as a transport failure does: the handler does
\* not return no-error, sets no value and no request error, and has
\* released the reply.
C7_RpcErrorFailsHandler ==
    (last.called /\ last.mode = MODE_GET /\ last.failed = "rpc_error")
    => /\ last.ret # SNMP_ERR_NOERROR
       /\ last.err = 0
       /\ NoValueSet
       /\ last.rpcs = <<RpcGet(last.obj)>>
       /\ last.leaked = {}
       /\ DatastoreUnchanged

\* A Read whose get reply held an rpc-error has returned
C7_Witness ==
    /\ last.called
    /\ ~aborted
    /\ last.mode = MODE_GET
    /\ last.failed = "rpc_error"
    /\ last.rpcs # <<>>

\* C8: once a set transaction has ended, the candidate holds no edit that
\* is not in running.
C8_NoStagedEditSurvives ==
    asp.phase = "FINISHED" => candidate = running

\* C9: every resource a handler invocation acquired has been released when
\* the invocation returns.
C9_AllResourcesReleased ==
    last.called => last.leaked = {}

\* C10: a Free-mode invocation issues no RPC, leaves candidate and running
\* unchanged and returns no-error.
C10_FreeAlwaysSucceeds ==
    (last.called /\ last.mode = MODE_SET_FREE)
    => /\ last.ret = SNMP_ERR_NOERROR
       /\ last.rpcs = <<>>
       /\ DatastoreUnchanged


\* The string form of a protocol value
StringForm(vb) ==
    IF vb.type = ASN_INTEGER THEN IntToStr(vb.integer) ELSE vb.string

\* The protocol value has a string form
Translatable(vb) == vb.type \in {ASN_INTEGER, ASN_OCTET_STR}

\* C11: an Action-mode invocation for scalar s with a translatable value v
\* that returns success has issued exactly one edit-config, with target
\* candidate and operation merge, addressing s and carrying the string form
\* of v; afterwards the candidate holds that string at s, every other
\* candidate path is as before, and running is as before.
C11_ActionStagesMerge ==
    (last.called /\ last.mode = MODE_SET_ACTION
        /\ last.ret = SNMP_ERR_NOERROR /\ Translatable(last.pre.vb))
    => /\ last.rpcs = <<RpcEdit("candidate", "merge", last.obj,
                                StringForm(last.pre.vb))>>
       /\ candidate[last.obj] = StringForm(last.pre.vb)
       /\ \A p \in Objs \ {last.obj} : candidate[p] = last.pre.candidate[p]
       /\ running = last.pre.running

\* Action has staged "1" for A while the candidate held an edit for B
C11_Witness ==
    /\ last.called
    /\ last.mode = MODE_SET_ACTION
    /\ last.obj = "A"
    /\ last.ret = SNMP_ERR_NOERROR
    /\ last.pre.vb = Varbind(ASN_INTEGER, 1, NULL)
    /\ last.pre.candidate["A"] # <<"1">>
    /\ last.pre.candidate["B"] # NULL
    /\ last.pre.candidate["B"] # last.pre.running["B"]
    /\ candidate["A"] = <<"1">>
    /\ candidate["B"] = last.pre.candidate["B"]

C13_NeverAborts == ~aborted

\* C14: an Action-mode invocation in which the translation of the incoming
\* value to its string form reports a per-object error issues no
\* edit-config, leaves candidate and running unchanged, and returns
\* no-error; the error is set on the request of its own object only.
C14_UntranslatableNoEdit ==
    (last.called /\ last.mode = MODE_SET_ACTION /\ last.failed = "none"
        /\ ~Translatable(last.pre.vb))
    => /\ last.rpcs = <<>>
       /\ DatastoreUnchanged
       /\ last.ret = SNMP_ERR_NOERROR
       /\ last.err # 0
       /\ reqerr[last.obj] = last.err
       /\ \A p \in Objs \ {last.obj} : reqerr[p] = last.pre.reqerr[p]

\* Action for A was given a value without a string form, while the
\* candidate held an edit staged for B
C14_Witness ==
    /\ last.called
    /\ last.mode = MODE_SET_ACTION
    /\ last.obj = "A"
    /\ last.failed = "none"
    /\ last.pre.vb = NullVarbind
    /\ last.err # 0
    /\ last.ret = SNMP_ERR_NOERROR
    /\ candidate["B"] # running["B"]

(***************************************************************************)
(* Properties of the module-state document.                                *)
(***************************************************************************)
\* A yang_modules_state_get call has returned OK: the document was merged
Produced == mlast.called /\ mlast.out.ret = 0

\* The module-state document in the caller's result tree
StateDoc == mlast.out.xret[Len(mlast.pre) + 1]

\* The elements of x with the given tag, in document order
Elems(x, tag) ==
    LET is(e) == e.tag = tag IN SelectSeq(x.kids, is)

\* The child statements of yn with the given keyword, in stored order
Stmts(yn, keyword) ==
    LET is(y) == y.keyword = keyword IN SelectSeq(yn.kids, is)

\* The value yn declares for the keyword, empty if it declares none
Declared(yn, keyword) ==
    IF Stmts(yn, keyword) = <<>> THEN <<>>
    ELSE Stmts(yn, keyword)[1].argument

\* The texts of a sequence of elements
Texts(es) == [i \in 1..Len(es) |-> es[i].text]

\* The module entries of the document pair with the module nodes of the
\* schema tree the call was given
ModuleEntries == Elems(StateDoc, "module")

ModuleNodes == Stmts(mlast.yspec, Y_MODULE)

\* C15: in the module-state document every reported module has exactly one
\* revision element and one namespace element, and every reported
\* submodule exactly one revision element; the element carries the
\* declared value when the schema declares one and is empty when it
\* declares none.
C15_RevisionNeverOmitted ==
    Produced =>
        /\ Len(ModuleEntries) = Len(ModuleNodes)
        /\ \A i \in 1..Len(ModuleEntries) :
            LET e == ModuleEntries[i]
                y == ModuleNodes[i]
                es == Elems(e, "submodule")
                ys == Stmts(y, Y_SUBMODULE)
            IN  /\ Texts(Elems(e, "revision")) = <<Declared(y, Y_REVISION)>>
                /\ Texts(Elems(e, "namespace")) = <<Declared(y, Y_NAMESPACE)>>
                /\ Len(es) = Len(ys)
                /\ \A j \in 1..Len(es) :
                    Texts(Elems(es[j], "revision"))
                        = <<Declared(ys[j], Y_REVISION)>>

\* A document reports a module with a revision, a module without one, and
\* submodules with and without one
C15_Witness ==
    /\ Produced
    /\ \E i, k \in 1..Len(ModuleNodes) :
        /\ Stmts(ModuleNodes[i], Y_REVISION) = <<>>
        /\ Stmts(ModuleNodes[i], Y_NAMESPACE) = <<>>
        /\ Texts(Elems(ModuleEntries[i], "revision")) = <<<<>>>>
        /\ Len(Stmts(ModuleNodes[k], Y_REVISION)) = 2
        /\ Len(Stmts(ModuleNodes[k], Y_SUBMODULE)) = 2
        /\ Len(Elems(ModuleEntries[k], "submodule")) = 2

\* The enabled features of a module node, in stored order
EnabledFeatures(y) ==
    LET on(f) == f.keyword = Y_FEATURE /\ f.cv = "true"
    IN  [i \in 1..Len(SelectSeq(y.kids, on)) |->
            SelectSeq(y.kids, on)[i].argument]

\* C16: each module entry of the module-state document lists a feature
\* element for exactly the enabled feature children of its module: no
\* disabled feature and no feature without flag, and every enabled one.
C16_EnabledFeaturesOnly ==
    Produced =>
        /\ Len(ModuleEntries) = Len(ModuleNodes)
        /\ \A i \in 1..Len(ModuleEntries) :
            Texts(Elems(ModuleEntries[i], "feature"))
                = EnabledFeatures(ModuleNodes[i])

\* A document reports f2 for module A, where f2 is enabled and f3 has no
\* flag, and not for module B, where f2 is disabled
C16_Witness ==
    /\ Produced
    /\ \E i, k \in 1..Len(ModuleNodes) :
        /\ ModuleNodes[i].argument = <<"A">>
        /\ Len(Stmts(ModuleNodes[i], Y_FEATURE)) = 2
        /\ Texts(Elems(ModuleEntries[i], "feature")) = <<<<"f2">>>>
        /\ ModuleNodes[k].argument = <<"B">>
        /\ Len(Stmts(ModuleNodes[k], Y_FEATURE)) = 1
        /\ Elems(ModuleEntries[k], "feature") = <<>>

\* C17: the module-state document has one module entry for every module
\* node of the schema tree, in the tree's stored order, and no entry for
\* any other node.
C17_AllModulesInOrder ==
    Produced =>
        /\ Texts([i \in 1..Len(ModuleEntries) |->
                    Elems(ModuleEntries[i], "name")[1]])
                = [i \in 1..Len(ModuleNodes) |-> ModuleNodes[i].argument]
        /\ Len(StateDoc.kids) = 1 + Len(ModuleNodes)

\* A document reports B, A and the inventory module in that order
C17_Witness ==
    /\ Produced
    /\ Len(mlast.yspec.kids) = 3
    /\ Texts([i \in 1..Len(ModuleEntries) |->
                Elems(ModuleEntries[i], "name")[1]])
            = <<<<"B">>, <<"A">>, <<"ietf-yang-library">>>>

\* The rpc-error documents with error-tag operation-failed in a result tree
OperationFailed(xret) ==
    LET is(x) == /\ x.tag = "rpc-error"
                 /\ Texts(Elems(x, "error-tag")) = <<<<"operation-failed">>>>
    IN  SelectSeq(xret, is)

\* The module-state documents in a result tree
ModulesState(xret) ==
    LET is(x) == x.tag = "modules-state" IN SelectSeq(xret, is)

\* C18: when the serialized document fails to parse, yang_modules_state_get
\* puts an operation-failed error document into the caller's result tree,
\* merges no module-state content and returns 1; it returns -1 only when
\* building the error document failed, and then leaves the tree as it was.
C18_ParseFailureRecoverable ==
    /\ (mlast.called /\ mlast.out.failed = "xml_parse_string")
       => /\ mlast.out.ret = 1
          /\ Len(mlast.out.xret) = Len(mlast.pre) + 1
          /\ SubSeq(mlast.out.xret, 1, Len(mlast.pre)) = mlast.pre
          /\ Len(OperationFailed(mlast.out.xret)) = 1
          /\ ModulesState(mlast.out.xret) = <<>>
    /\ (mlast.called /\ mlast.out.failed = "netconf_operation_failed_xml")
       => /\ mlast.out.ret = -1
          /\ mlast.out.xret = mlast.pre

\* A document whose namespace holds an ampersand failed to parse, and the
\* caller's tree, which held other state data, got the error document
C18_Witness ==
    /\ mlast.called
    /\ mlast.out.failed = "xml_parse_string"
    /\ mlast.out.cb # NULL
    /\ xml_parse_string(mlast.out.cb, FALSE).ret < 0
    /\ mlast.out.ret = 1
    /\ mlast.pre # <<>>

\* The inventory module nodes of the schema tree the call was given
InventoryModules ==
    LET is(y) == y.keyword = Y_MODULE /\ y.argument = <<"ietf-yang-library">>
    IN  SelectSeq(mlast.yspec.kids, is)

\* C19: when the inventory module or its namespace declaration is absent
\* from the schema tree, yang_modules_state_get returns -1 and leaves the
\* caller's result tree unchanged.
C19_InventoryAbsentFatal ==
    (mlast.called
        /\ (InventoryModules = <<>>
            \/ Stmts(InventoryModules[1], Y_NAMESPACE) = <<>>))
    => /\ mlast.out.ret = -1
       /\ mlast.out.xret = mlast.pre

\* The inventory module was loaded without a namespace declaration, other
\* modules have one, and the call for a tree holding other state data
\* failed
C19_Witness ==
    /\ mlast.called
    /\ InventoryModules # <<>>
    /\ Stmts(InventoryModules[1], Y_NAMESPACE) = <<>>
    /\ \E i \in 1..Len(ModuleNodes) :
            Stmts(ModuleNodes[i], Y_NAMESPACE) # <<>>
    /\ mlast.pre # <<>>
    /\ mlast.out.ret = -1

\* The call neither failed for want of the inventory module nor formatted
\* a module-set-id that is not configured
ConfigurationSound ==
    /\ mlast.out.failed # "ylib"
    /\ mlast.out.cb # NULL \/ mlast.out.crashed
        => clicon_option_exists(h, "CLICON_MODULE_SET_ID")

\* C20 as stated: after yang_modules_init has returned success, no
\* yang_modules_state_get fails because the inventory module is absent and
\* none emits a module-set-id that was never configured.
C20_ConfigErrorsAtInit ==
    (inited = "ok" /\ mlast.called) => ConfigurationSound

\* C20 as amended: the same, when the module library is enabled
\* (CLICON_MODULE_LIBRARY_RFC7895); and a document that is produced then
\* carries the configured module-set-id.
C20_ConfigErrorsAtInitWhenEnabled ==
    (inited = "ok" /\ mlast.called
        /\ clicon_option_bool(h, "CLICON_MODULE_LIBRARY_RFC7895"))
    => /\ ConfigurationSound
       /\ ~mlast.out.crashed
       /\ Produced =>
            Texts(Elems(StateDoc, "module-set-id"))
                = <<clicon_option_str(h, "CLICON_MODULE_SET_ID")>>

\* With the module library enabled, initialisation loaded the inventory
\* module and a later call produced a document with the configured
\* module-set-id
C20_Witness ==
    /\ inited = "ok"
    /\ clicon_option_bool(h, "CLICON_MODULE_LIBRARY_RFC7895")
    /\ Produced
    /\ Len(mlast.yspec.kids) = 1 + MaxMods
    /\ Texts(Elems(StateDoc, "module-set-id")) = <<<<"42">>>>

(***************************************************************************)
(* Properties of the table handler.                                        *)
(***************************************************************************)
\* C21: the table contents are built from the datastore at the start of a
\* walk only: a later step of the walk issues no query and leaves the
\* contents as the first step of the walk built them, whatever was
\* inserted into or removed from the datastore since.
C21_TableBuiltAtWalkStartOnly ==
    (tlast.called /\ tlast.mode = MODE_GETNEXT /\ tlast.step > 1)
    => /\ tlast.out.rpcs = <<>>
       /\ tables[tlast.sh] = walk.start

\* C22: for a table cell the set phases mean what they mean for a scalar:
\* Reserve1 sets wrong-type on a value whose tag is not the column's,
\* Action issues a merge edit into the candidate, Commit issues a commit.
C22_TableCellLikeScalar ==
    (tlast.called /\ tlast.sh = "T" /\ tlast.out.failed = "none")
    => /\ (tlast.mode = MODE_SET_RESERVE1 /\ tlast.vb.type # ASN_INTEGER)
            => tlast.out.err = SNMP_ERR_WRONGTYPE
       /\ (tlast.mode = MODE_SET_ACTION /\ tlast.vb.type = ASN_INTEGER)
            => \E i \in 1..Len(tlast.out.rpcs) :
                    /\ tlast.out.rpcs[i].op = "edit-config"
                    /\ tlast.out.rpcs[i].target = "candidate"
                    /\ tlast.out.rpcs[i].operation = "merge"
       /\ tlast.mode = MODE_SET_COMMIT
            => \E i \in 1..Len(tlast.out.rpcs) :
                    tlast.out.rpcs[i].op = "commit"

\* C23: when the schema node of a table binding has no list child, the
\* table handler returns no-error in every mode, issues no query, leaves
\* the table contents as they were and changes nothing in the datastore.
C23_NoListNoOp ==
    (tlast.called /\ Stmts(table_ys(tlast.sh), Y_LIST) = <<>>)
    => /\ tlast.out.ret = SNMP_ERR_NOERROR
       /\ tlast.out.rpcs = <<>>
       /\ tlast.out.err = 0
       /\ tables[tlast.sh] = tlast.pre.table
       /\ dsrows = tlast.pre.dsrows
       /\ running = [o \in Objs |-> NULL]
       /\ candidate = running

\* The handler of the binding without list child has returned from a set
\* phase while the datastore held rows its table does not
C23_Witness ==
    /\ tlast.called
    /\ tlast.sh = "N"
    /\ tlast.mode = MODE_SET_ACTION
    /\ dsrows # <<>>
    /\ tables["N"] = <<>>
    /\ tables["T"] = dsrows
    /\ tlast.out.ret = SNMP_ERR_NOERROR

(***************************************************************************)
(* Properties of the type translation.                                     *)
(***************************************************************************)
\* The cv type of object o's leaf
CvType(o) == yang2snmp_types(sh_ys(o), FALSE).cvtype

DebugPrinted ==
    llast.printed \cap {CLICON_LOG_STDERR, CLICON_LOG_STDOUT, CLICON_LOG_FILE} # {}

\* Standard error, standard output or a log file is enabled as destination
DestinationEnabled ==
    \/ logflags \cap {CLICON_LOG_STDERR, CLICON_LOG_STDOUT} # {}
    \/ CLICON_LOG_FILE \in logflags /\ logfile # NoFile /\ streams[logfile] = "open"

\* A clicon_debug call has returned, after clicon_debug_init, with a
\* destination enabled and memory for the message
DebugCalled ==
    /\ llast.op = "clicon_debug"
    /\ ~llast.nomem
    /\ dbginit
    /\ DestinationEnabled

\* C25: after clicon_debug_init(L, f), clicon_debug(d, msg) with a stderr,
\* stdout or file destination enabled prints the message exactly when
\* L >= d, for all L, d >= 0 (so a message with d = 0 is always printed);
\* when d > L it returns 0 and prints nothing.
C25_DebugPrintsIffLevel ==
    DebugCalled =>
        /\ DebugPrinted <=> clixon_debug >= llast.level
        /\ llast.level > clixon_debug => llast.ret = 0 /\ llast.printed = {}

\* The streams the logger holds open
OpenFiles == {f \in Files : streams[f] = "open"}

\* C26: across any sequence of clicon_log_file, clicon_debug_init,
\* clicon_log_exit, clicon_log and clicon_debug calls the logger holds at
\* most one log file, the previous one being closed when a new one is
\* installed, and never writes to or closes again a stream already closed.
C26_OneFileNoUseAfterClose ==
    /\ Cardinality(OpenFiles) <= 1
    /\ OpenFiles # {} => OpenFiles = {logfile}
    /\ llast.ub = "none"

=============================================================================
